---- MODULE Spec2Model ----
(***************************************************************************)
(* Model of app/app_dash.py: the franchise dashboard.                      *)
(*                                                                         *)
(*   - the module-level startup code (directory scan, catalog, layout),    *)
(*   - update_graph (load, coerce, sort, smooth, build the figure),        *)
(*   - display_hover_data (the detail panel),                              *)
(*   - smooth_line, and the date parse / format pair used by the loader.   *)
(*                                                                         *)
(* Text is a sequence of one-character strings, so that parsing and        *)
(* formatting are computed character by character.  Timestamps are counted *)
(* in whole days since 1970-01-01 instead of nanoseconds: every date the   *)
(* loader can produce is a midnight, so the scaling is exact, and the      *)
(* int64 minimum that stands for NaT becomes the constant NaT.             *)
(***************************************************************************)
EXTENDS Integers, Sequences, FiniteSets, TLC

VARIABLES
    \* ---- the application ----
    pc,          \* "boot" | "serving" | "page" | "crashed"
    listing,     \* what os.listdir(csv_folder) yields: the names, or Missing
    disk,        \* path -> contents of the file, or Missing
    writes,      \* number of times a file was rewritten or deleted
    franchises,  \* the catalog: sequence of <<display name, path>>
    options,     \* the dropdown's options: sequence of [label, value]
    value,       \* the dropdown's value (a path)
    figure,      \* the figure shown by the graph component
    graphError,  \* outcome of the latest update_graph call
    hoverData,   \* the graph component's hoverData property
    hoverRow,    \* history: the table row of the point hoverData was taken from
    panel,       \* children of hover-data-box
    pending,     \* the callbacks the latest event has triggered and that have not run
    lastLoad,    \* history: path -> what the latest update_graph of it read and built
    \* ---- smooth_line on its own ----
    sx, sy, spoints, sout,
    \* ---- to_datetime / strftime on their own ----
    dphase, dstr, dparsed, dformatted

appVars    == <<pc, listing, disk, writes, franchises, options, value, figure,
                graphError, hoverData, hoverRow, panel, pending, lastLoad>>
smoothVars == <<sx, sy, spoints, sout>>
dateVars   == <<dphase, dstr, dparsed, dformatted>>
vars       == <<appVars, smoothVars, dateVars>>

(***************************************************************************)
(* Values.  A table cell is a tagged record: a number, a text, or NaN      *)
(* (read_csv turns an empty cell into NaN).  Python's None, a missing file *)
(* or directory and a raised exception are tagged records as well.         *)
(***************************************************************************)
Num(v)  == [k |-> "num", v |-> v]
Text(s) == [k |-> "text", s |-> s]
NaN     == [k |-> "nan"]
None    == [k |-> "None"]
Missing == [k |-> "missing"]
Raised(e) == [k |-> "raised", error |-> e]

notna(c) == c.k # "nan"

\* F applied to the value of v: a local variable assigned once and read many times.
Bind(v, F(_)) == CHOOSE r \in {F(x) : x \in {v}} : TRUE

(***************************************************************************)
(* Text helpers                                                            *)
(***************************************************************************)
UpperChars == <<"A","B","C","D","E","F","G","H","I","J","K","L","M",
                "N","O","P","Q","R","S","T","U","V","W","X","Y","Z">>
LowerChars == <<"a","b","c","d","e","f","g","h","i","j","k","l","m",
                "n","o","p","q","r","s","t","u","v","w","x","y","z">>
DigitChars == <<"0","1","2","3","4","5","6","7","8","9">>

Lower(c) ==
    IF \E i \in 1..Len(UpperChars) : UpperChars[i] = c
    THEN LowerChars[CHOOSE i \in 1..Len(UpperChars) : UpperChars[i] = c]
    ELSE c

Upper(c) ==
    IF \E i \in 1..Len(LowerChars) : LowerChars[i] = c
    THEN UpperChars[CHOOSE i \in 1..Len(LowerChars) : LowerChars[i] = c]
    ELSE c

LowerStr(s) == [i \in 1..Len(s) |-> Lower(s[i])]

IsDigit(c) == \E i \in 1..Len(DigitChars) : DigitChars[i] = c
DigitVal(c) == (CHOOSE i \in 1..Len(DigitChars) : DigitChars[i] = c) - 1
DigitChar(n) == DigitChars[n + 1]
IsSpace(c) == c = " "

StartsWithAt(s, i, t) == i + Len(t) - 1 <= Len(s) /\ SubSeq(s, i, i + Len(t) - 1) = t

(***************************************************************************)
(* Calendar arithmetic behind Timestamp <-> (year, month, day)             *)
(***************************************************************************)
MonthAbbr == << <<"J","a","n">>, <<"F","e","b">>, <<"M","a","r">>, <<"A","p","r">>,
                <<"M","a","y">>, <<"J","u","n">>, <<"J","u","l">>, <<"A","u","g">>,
                <<"S","e","p">>, <<"O","c","t">>, <<"N","o","v">>, <<"D","e","c">> >>

IsLeap(y) == (y % 4 = 0 /\ y % 100 # 0) \/ y % 400 = 0

DaysInMonth(y, m) ==
    IF m = 2 THEN (IF IsLeap(y) THEN 29 ELSE 28)
    ELSE IF m \in {4, 6, 9, 11} THEN 30 ELSE 31

DaysFromCivil(y, m, d) ==
    LET yy  == IF m <= 2 THEN y - 1 ELSE y
        era == yy \div 400
        yoe == yy - era * 400
        mp  == (m + 9) % 12
        doy == (153 * mp + 2) \div 5 + d - 1
        doe == yoe * 365 + yoe \div 4 - yoe \div 100 + doy
    IN  era * 146097 + doe - 719468

CivilFromDays(z0) ==
    LET z   == z0 + 719468
        era == z \div 146097
        doe == z - era * 146097
        yoe == (doe - doe \div 1460 + doe \div 36524 - doe \div 146096) \div 365
        doy == doe - (365 * yoe + yoe \div 4 - yoe \div 100)
        mp  == (5 * doy + 2) \div 153
        d   == doy - (153 * mp + 2) \div 5 + 1
        m   == IF mp < 10 THEN mp + 3 ELSE mp - 9
        y   == yoe + era * 400 + (IF m <= 2 THEN 1 ELSE 0)
    IN  [year |-> y, month |-> m, day |-> d]

\* datetime64[ns] holds 1677-09-21T00:12:43 .. 2262-04-11T23:47:16; in days:
TimestampMinDay == -106751
TimestampMaxDay == 106751
\* NaT is stored as the int64 minimum, which lies below every Timestamp, and
\* pd.to_numeric of a datetime column hands out the stored integers.
NaT == -106752

(***************************************************************************)
(* pd.to_datetime(s, format="%b %d, %Y", errors='coerce') on one cell.     *)
(* The format compiles to the pattern                                      *)
(*   (jan|feb|...) \s+ (3[0-1]|[1-2]\d|0[1-9]|[1-9]| [1-9]) , \s+ \d\d\d\d *)
(* matched ignoring case against the whole cell.                           *)
(***************************************************************************)
RECURSIVE SkipSpaces(_, _)
SkipSpaces(s, i) ==
    IF i <= Len(s) /\ IsSpace(s[i]) THEN SkipSpaces(s, i + 1) ELSE i

MonthOf(s) ==
    IF Len(s) >= 3 /\ \E m \in 1..12 : LowerStr(MonthAbbr[m]) = LowerStr(SubSeq(s, 1, 3))
    THEN CHOOSE m \in 1..12 : LowerStr(MonthAbbr[m]) = LowerStr(SubSeq(s, 1, 3))
    ELSE 0

\* %d at position i, followed by the literal comma: [day, next position] or next = 0.
TwoDigitDay(s, i) ==
    /\ i + 1 <= Len(s)
    /\ IsDigit(s[i]) /\ IsDigit(s[i + 1])
    /\ \/ s[i] = "3" /\ s[i + 1] \in {"0", "1"}
       \/ s[i] \in {"1", "2"}
       \/ s[i] = "0" /\ s[i + 1] # "0"

DayAt(s, i) ==
    IF TwoDigitDay(s, i) /\ i + 2 <= Len(s) /\ s[i + 2] = ","
    THEN [day |-> 10 * DigitVal(s[i]) + DigitVal(s[i + 1]), next |-> i + 3]
    ELSE IF i + 1 <= Len(s) /\ IsDigit(s[i]) /\ s[i] # "0" /\ s[i + 1] = ","
    THEN [day |-> DigitVal(s[i]), next |-> i + 2]
    ELSE [day |-> 0, next |-> 0]

YearAt(s, i) ==
    IF i + 3 = Len(s) /\ \A k \in i..(i + 3) : IsDigit(s[k])
    THEN 1000 * DigitVal(s[i]) + 100 * DigitVal(s[i + 1])
         + 10 * DigitVal(s[i + 2]) + DigitVal(s[i + 3])
    ELSE -1

\* The parsed Timestamp (days since the epoch), or NaT when the cell is refused.
strptime(s) ==
    IF MonthOf(s) = 0 THEN NaT
    ELSE
    LET m  == MonthOf(s)
        i1 == SkipSpaces(s, 4)
        dd == DayAt(s, i1)
        i2 == SkipSpaces(s, dd.next)
        y  == YearAt(s, i2)
    IN  IF i1 = 4 \/ dd.next = 0 \/ i2 = dd.next \/ y < 0 THEN NaT
        ELSE IF y < 1 \/ dd.day > DaysInMonth(y, m) THEN NaT
        ELSE IF DaysFromCivil(y, m, dd.day) < TimestampMinDay
                \/ DaysFromCivil(y, m, dd.day) > TimestampMaxDay THEN NaT
        ELSE DaysFromCivil(y, m, dd.day)

to_datetime(c) == IF c.k = "text" THEN strptime(c.s) ELSE NaT

(***************************************************************************)
(* Series.dt.strftime('%b %d, %Y') on one cell.                            *)
(***************************************************************************)
TwoDigits(n) == <<DigitChar(n \div 10), DigitChar(n % 10)>>
FourDigits(n) == <<DigitChar(n \div 1000), DigitChar((n \div 100) % 10),
                   DigitChar((n \div 10) % 10), DigitChar(n % 10)>>

\* Variant that writes the day of month without padding.
strftime_unpadded(t) ==
    IF t = NaT THEN NaN
    ELSE LET c == CivilFromDays(t)
         IN  Text(MonthAbbr[c.month] \o <<" ">>
                  \o (IF c.day < 10 THEN <<DigitChar(c.day)>> ELSE TwoDigits(c.day))
                  \o <<",", " ">> \o FourDigits(c.year))

strftime(t) ==
    IF t = NaT THEN NaN
    ELSE LET c == CivilFromDays(t)
         IN  Text(MonthAbbr[c.month] \o <<" ">> \o TwoDigits(c.day) \o <<",", " ">>
                  \o FourDigits(c.year))

\* The variables of a part of the model that a specification leaves aside.
IdleApp ==
    /\ pc = "idle" /\ listing = Missing /\ disk = <<>> /\ writes = 0
    /\ franchises = <<>> /\ options = <<>> /\ value = <<>>
    /\ figure = None /\ graphError = None /\ hoverData = None /\ hoverRow = None
    /\ panel = None /\ pending = {} /\ lastLoad = <<>>
IdleSmooth == sx = <<>> /\ sy = <<>> /\ spoints = 0 /\ sout = None
IdleDate == dphase = "idle" /\ dstr = <<>> /\ dparsed = NaT /\ dformatted = NaN

(***************************************************************************)
(* smooth_line                                                             *)
(***************************************************************************)
DefaultPoints == 300
MinValid == 3
SplineDegree == 3

\* s[mask]: boolean-mask indexing keeps the selected positions in order.
RECURSIVE BoolIndex(_, _)
BoolIndex(s, mask) ==
    IF s = <<>> THEN <<>>
    ELSE (IF Head(mask) THEN <<Head(s)>> ELSE <<>>) \o BoolIndex(Tail(s), Tail(mask))

StrictlyIncreasing(x) == \A i \in 1..(Len(x) - 1) : x[i] < x[i + 1]

SeqMin(x) == CHOOSE v \in {x[i] : i \in 1..Len(x)} : \A i \in 1..Len(x) : v <= x[i]
SeqMax(x) == CHOOSE v \in {x[i] : i \in 1..Len(x)} : \A i \in 1..Len(x) : v >= x[i]

\* make_interp_spline(x, y) with its defaults (k = 3, bc_type = None): it refuses
\* abscissae that are not strictly increasing, and with the not-a-knot knot
\* vector a degree-k fit needs k + 1 data points ("The number of derivatives at
\* boundaries does not match").
make_interp_spline(x, y) ==
    IF ~StrictlyIncreasing(x) THEN Raised("ValueError")
    ELSE IF Len(x) < SplineDegree + 1 THEN Raised("ValueError")
    ELSE [k |-> "spline", knots |-> x, values |-> y]

\* np.linspace(start, stop, num): sample i is start + i * (stop - start) / (num - 1),
\* kept as the exact fraction n/d; the last sample is stop itself.
linspace(start, stop, num) ==
    IF num = 1 THEN << [n |-> start, d |-> 1] >>
    ELSE [i \in 1..num |->
            [n |-> start * (num - 1) + (i - 1) * (stop - start), d |-> num - 1]]

\* spline(x_smooth): the data value at a knot, an interpolated value elsewhere.
SplineAt(spline, q) ==
    IF \E j \in 1..Len(spline.knots) : spline.knots[j] * q.d = q.n
    THEN spline.values[CHOOSE j \in 1..Len(spline.knots) : spline.knots[j] * q.d = q.n]
    ELSE [k |-> "interp", at |-> q]

SmoothCurve(spline, x, points) ==
    IF spline.k = "raised" THEN spline
    ELSE Bind(linspace(SeqMin(x), SeqMax(x), points), LAMBDA x_smooth :
            [k |-> "ok", smoothed |-> TRUE, x |-> x_smooth,
             y |-> [i \in 1..Len(x_smooth) |-> SplineAt(spline, x_smooth[i])]])

\* Variant that starts interpolating at two valid pairs.
smooth_line_low_threshold(x0, y0, points) ==
    Bind([i \in 1..Len(y0) |-> notna(y0[i])], LAMBDA valid_data :
    Bind(BoolIndex(x0, valid_data), LAMBDA x :
    Bind(BoolIndex(y0, valid_data), LAMBDA y :
        IF Len(x) >= MinValid - 1
        THEN Bind(make_interp_spline(x, y), LAMBDA spline : SmoothCurve(spline, x, points))
        ELSE [k |-> "ok", smoothed |-> FALSE, x |-> x, y |-> y])))

smooth_line(x0, y0, points) ==
    Bind([i \in 1..Len(y0) |-> notna(y0[i])], LAMBDA valid_data :
    Bind(BoolIndex(x0, valid_data), LAMBDA x :
    Bind(BoolIndex(y0, valid_data), LAMBDA y :
        IF Len(x) >= MinValid
        THEN Bind(make_interp_spline(x, y), LAMBDA spline : SmoothCurve(spline, x, points))
        ELSE [k |-> "ok", smoothed |-> FALSE, x |-> x, y |-> y])))

(***************************************************************************)
(* SpecSmooth: smooth_line on every series of at most MaxLen pairs         *)
(***************************************************************************)
MaxLen == 4
SmoothX == {18000, 18010, 18020, 18030}
SmoothY == {NaN, Num(7)}
SmoothPoints == {4, DefaultPoints}

InitSmooth ==
    /\ IdleApp /\ IdleDate
    /\ \E n \in 0..MaxLen :
          /\ sx \in [1..n -> SmoothX]
          /\ sy \in [1..n -> SmoothY]
    /\ spoints \in SmoothPoints
    /\ sout = None

CallSmoothLine ==
    /\ sout = None
    /\ sout' = smooth_line(sx, sy, spoints)
    /\ UNCHANGED <<sx, sy, spoints, appVars, dateVars>>

NextSmooth == CallSmoothLine

SpecSmooth == InitSmooth /\ [][NextSmooth]_vars

(***************************************************************************)
(* Startup: the module-level code, lines 26-48                             *)
(***************************************************************************)
csv_folder == <<"c","s","v","s">>
MoviesSuffix == <<"_","m","o","v","i","e","s",".","c","s","v">>

EndsWith(s, t) == Len(s) >= Len(t) /\ SubSeq(s, Len(s) - Len(t) + 1, Len(s)) = t

\* str.replace(old, new): every occurrence, left to right, without overlap.
RECURSIVE Replace(_, _, _)
Replace(s, old, new) ==
    IF s = <<>> THEN <<>>
    ELSE IF StartsWithAt(s, 1, old)
    THEN new \o Replace(SubSeq(s, Len(old) + 1, Len(s)), old, new)
    ELSE <<Head(s)>> \o Replace(Tail(s), old, new)

IsLetter(c) ==
    \E i \in 1..Len(LowerChars) : LowerChars[i] = c \/ UpperChars[i] = c

\* str.title(): a letter that follows a non-letter is upper-cased, the others lowered.
Title(s) ==
    [i \in 1..Len(s) |->
        IF i = 1 \/ ~IsLetter(s[i - 1]) THEN Upper(s[i]) ELSE Lower(s[i])]

path_join(folder, name) == folder \o <<"/">> \o name

franchise_csvs(names) == SelectSeq(names, LAMBDA f : EndsWith(f, MoviesSuffix))

DisplayName(csv) == Replace(Replace(csv, MoviesSuffix, <<>>), <<"_">>, <<" ">>)

\* The dict comprehension of lines 30-33: a repeated key keeps its first place
\* and takes the latest value.
RECURSIVE DictOf(_)
DictOf(files) ==
    IF files = <<>> THEN <<>>
    ELSE LET rest == DictOf(SubSeq(files, 1, Len(files) - 1))
             csv  == files[Len(files)]
             item == <<DisplayName(csv), path_join(csv_folder, csv)>>
         IN  IF \E i \in 1..Len(rest) : rest[i][1] = item[1]
             THEN [i \in 1..Len(rest) |-> IF rest[i][1] = item[1] THEN item ELSE rest[i]]
             ELSE Append(rest, item)

DropdownOptions(catalog) ==
    [i \in 1..Len(catalog) |-> [label |-> Title(catalog[i][1]), value |-> catalog[i][2]]]

(***************************************************************************)
(* update_graph, lines 63-144                                              *)
(***************************************************************************)
PayloadColumns ==
    <<"title", "formatted_release_date", "production_budget", "box_office", "profit",
      "roi_percentage", "performance", "poster_url", "backdrop_url", "runtime",
      "tagline", "trailer", "sentiment_score", "comment">>

\* Variant that keeps what an earlier selection of the path has read.
read_csv_cached(path) ==
    IF lastLoad[path].k = "load" THEN lastLoad[path].read
    ELSE IF disk[path].k = "missing" THEN Raised("FileNotFoundError")
    ELSE disk[path]

read_csv(path) ==
    IF disk[path].k = "missing" THEN Raised("FileNotFoundError") ELSE disk[path]

\* pd.to_numeric(cell, errors='coerce') on a cell that is a number, NaN or a text
\* that is no number.
to_numeric(c) == IF c.k = "num" THEN c ELSE NaN

\* sort_values(by='release_date'): ascending, NaT last, equal keys in their
\* original order (the sort of tables this small is an insertion sort).
Before(a, b) == a # NaT /\ (b = NaT \/ a < b)

InsertRow(sorted, r) ==
    LET later == {j \in 1..Len(sorted) : Before(r["release_date"], sorted[j]["release_date"])}
        at    == IF later = {} THEN Len(sorted) + 1
                 ELSE CHOOSE j \in later : \A m \in later : j <= m
    IN  SubSeq(sorted, 1, at - 1) \o <<r>> \o SubSeq(sorted, at, Len(sorted))

RECURSIVE sort_values(_)
sort_values(rows) ==
    IF rows = <<>> THEN <<>>
    ELSE Bind(sort_values(SubSeq(rows, 1, Len(rows) - 1)), LAMBDA sorted :
            InsertRow(sorted, rows[Len(rows)]))

Column(df, c) == [i \in 1..Len(df) |-> df[i][c]]

Markers(name, df, ycol) ==
    [name |-> name, mode |-> "markers",
     x |-> Column(df, "release_date"), y |-> Column(df, ycol),
     customdata |-> [i \in 1..Len(df) |->
                        [j \in 1..Len(PayloadColumns) |-> df[i][PayloadColumns[j]]]]]

Line(name, curve) ==
    [name |-> name, mode |-> "lines", x |-> curve.x, y |-> curve.y]

\* The figure, or the exception that leaves update_graph.  frame records the
\* table the traces were drawn from.
BuildFigure(df, columns, x_numeric, perf, sent) ==
    IF perf.k = "raised" THEN perf
    ELSE IF sent.k = "raised" THEN sent
    ELSE IF \E j \in 1..Len(PayloadColumns) :
               PayloadColumns[j] \notin columns \cup {"formatted_release_date"}
    THEN Raised("KeyError")
    ELSE [k |-> "figure",
          data |-> << Line("Performance", perf), Markers("Performance", df, "performance"),
                      Line("Sentiment", sent), Markers("Sentiment", df, "sentiment_score") >>,
          frame |-> df]

SmoothAndBuild(df, columns) ==
    Bind(Column(df, "release_date"), LAMBDA x_numeric :
        IF "performance" \notin columns THEN Raised("KeyError")
        ELSE
        Bind(smooth_line(x_numeric, Column(df, "performance"), DefaultPoints), LAMBDA perf :
        Bind(smooth_line(x_numeric, Column(df, "sentiment_score"), DefaultPoints), LAMBDA sent :
            BuildFigure(df, columns, x_numeric, perf, sent))))

Coerce(file) ==
    IF "release_date" \notin file.columns THEN Raised("KeyError")
    ELSE
    Bind([i \in 1..Len(file.rows) |->
            [file.rows[i] EXCEPT !["release_date"] = to_datetime(@)]], LAMBDA df1 :
    Bind(sort_values(df1), LAMBDA df2 :
        IF "sentiment_score" \notin file.columns THEN Raised("KeyError")
        ELSE
        Bind([i \in 1..Len(df2) |->
                [c \in file.columns \cup {"formatted_release_date"} |->
                    IF c = "formatted_release_date" THEN strftime(df2[i]["release_date"])
                    ELSE IF c = "sentiment_score" THEN to_numeric(df2[i][c])
                    ELSE df2[i][c]]], LAMBDA df :
            SmoothAndBuild(df, file.columns))))

update_graph(selected_csv) ==
    Bind(read_csv(selected_csv), LAMBDA file :
        IF file.k = "raised" THEN file ELSE Coerce(file))

(***************************************************************************)
(* display_hover_data, lines 154-253                                       *)
(***************************************************************************)
Label(s) == Text(<<s>>)

\* Python's zero-based subscript.
At(seq, i) == seq[i + 1]

Placeholder ==
    [state |-> "no selection",
     title |-> Label("Hover Over the Graph For More Information"),
     date |-> Label("..."), runtime |-> Label(""), tagline |-> Label(""),
     poster |-> Label("https://placehold.co/2000x3000?text=..."),
     trailer |-> Label("https://placehold.co/410x280?text=..."),
     performance |-> Label("-.--"), sentiment |-> Label("-.--"),
     budget |-> Label(""), box_office |-> Label(""), profit |-> Label(""),
     roi |-> Label(""), comment |-> Label("")]

\* Variant in which the None test is missing: subscripting None raises, and the
\* exception leaves the panel as it was.
display_hover_data_unguarded(hover_data, selected_csv) ==
    IF hover_data = None THEN panel
    ELSE
    LET point_data == At(hover_data.points, 0).customdata
    IN  [state |-> "point hovered",
         title |-> At(point_data, 0),
         date |-> At(point_data, 1), runtime |-> At(point_data, 9),
         tagline |-> At(point_data, 10),
         poster |-> At(point_data, 7), trailer |-> At(point_data, 11),
         performance |-> At(point_data, 6), sentiment |-> At(point_data, 12),
         budget |-> At(point_data, 2), box_office |-> At(point_data, 3),
         profit |-> At(point_data, 4), roi |-> At(point_data, 5),
         comment |-> At(point_data, 13)]

\* Variant whose subscripts were written for a payload without backdrop_url.
display_hover_data_shifted(hover_data, selected_csv) ==
    IF hover_data = None THEN Placeholder
    ELSE
    LET point_data == At(hover_data.points, 0).customdata
        poster_url == At(point_data, 7)
        backdrop_url == At(point_data, 8)
        trailer == At(point_data, 11)
    IN  [state |-> "point hovered",
         title |-> At(point_data, 0),
         date |-> At(point_data, 1), runtime |-> At(point_data, 8),
         tagline |-> At(point_data, 9),
         poster |-> poster_url, trailer |-> At(point_data, 10),
         performance |-> At(point_data, 6), sentiment |-> At(point_data, 11),
         budget |-> At(point_data, 2), box_office |-> At(point_data, 3),
         profit |-> At(point_data, 4), roi |-> At(point_data, 5),
         comment |-> At(point_data, 12)]

display_hover_data(hover_data, selected_csv) ==
    IF hover_data = None THEN Placeholder
    ELSE
    LET point_data == At(hover_data.points, 0).customdata
        poster_url == At(point_data, 7)
        backdrop_url == At(point_data, 8)
        trailer == At(point_data, 11)
    IN  [state |-> "point hovered",
         title |-> At(point_data, 0),
         date |-> At(point_data, 1), runtime |-> At(point_data, 9),
         tagline |-> At(point_data, 10),
         poster |-> poster_url, trailer |-> trailer,
         performance |-> At(point_data, 6), sentiment |-> At(point_data, 12),
         budget |-> At(point_data, 2), box_office |-> At(point_data, 3),
         profit |-> At(point_data, 4), roi |-> At(point_data, 5),
         comment |-> At(point_data, 13)]

(***************************************************************************)
(* The files and directories the model puts under csvs/                    *)
(***************************************************************************)
Columns ==
    {"title", "release_date", "production_budget", "box_office", "profit",
     "roi_percentage", "performance", "poster_url", "backdrop_url", "runtime",
     "tagline", "trailer", "sentiment_score", "comment"}

Row(id, date, perf, sent) ==
    [c \in Columns |->
        IF c = "release_date" THEN Text(date)
        ELSE IF c = "performance" THEN perf
        ELSE IF c = "sentiment_score" THEN sent
        ELSE Text(<<c, id>>)]

File(rows) == [k |-> "file", columns |-> Columns, rows |-> rows]

Without(file, col) ==
    [k |-> "file", columns |-> file.columns \ {col},
     rows |-> [i \in 1..Len(file.rows) |->
                 [c \in file.columns \ {col} |-> file.rows[i][c]]]]

Jan05_2020 == <<"J","a","n"," ","0","5",","," ","2","0","2","0">>
Jan5_2020  == <<"J","a","n"," ","5",","," ","2","0","2","0">>
Feb29_2020 == <<"F","e","b"," ","2","9",","," ","2","0","2","0">>
Mar15_2021 == <<"M","a","r"," ","1","5",","," ","2","0","2","1">>
Apr30_2021 == <<"A","p","r"," ","3","0",","," ","2","0","2","1">>
Sep21_2021 == <<"S","e","p"," ","2","1",","," ","2","0","2","1">>
Iso_2020   == <<"2","0","2","0","-","0","1","-","0","5">>
NotScored  == Text(<<"n","/","a">>)

\* five rows, all dates and scores valid, not in date order
FileFive ==
    File(<< Row("m1", Mar15_2021, Num(8), Num(6)), Row("m2", Jan05_2020, Num(5), Num(7)),
            Row("m3", Sep21_2021, Num(6), Num(5)), Row("m4", Feb29_2020, Num(9), Num(4)),
            Row("m5", Apr30_2021, Num(7), Num(8)) >>)
\* two rows sharing a release date, one of them without a sentiment score, and an
\* earlier row without a performance
FileTies ==
    File(<< Row("m6", Feb29_2020, Num(4), NotScored), Row("m7", Feb29_2020, Num(9), Num(3)),
            Row("m8", Jan5_2020, NaN, NaN) >>)
\* a row whose release date is not in the loader's format, ahead of a good one
FileBadDate ==
    File(<< Row("m9", Iso_2020, Num(7), Num(2)), Row("m10", Jan05_2020, Num(3), NaN) >>)
\* a file lacking a required column
FileNoColumn ==
    Without(File(<< Row("m11", Mar15_2021, Num(1), Num(1)) >>), "performance")

\* the files found at startup, and what a file may be rewritten to
StartFiles == {FileFive, FileTies}
FileChoices == StartFiles \cup {FileBadDate, FileNoColumn}
MaxRows == 5

McuCsv   == <<"m","c","u">> \o MoviesSuffix
StarCsv  == <<"s","t","a","r","_","w","a","r","s">> \o MoviesSuffix
NotesTxt == <<"n","o","t","e","s",".","t","x","t">>

Dir(names) == [k |-> "dir", names |-> names]
Listings == {Missing, Dir(<<>>), Dir(<<NotesTxt>>), Dir(<<StarCsv, NotesTxt, McuCsv>>)}
Paths == {path_join(csv_folder, McuCsv), path_join(csv_folder, StarCsv)}

MaxWrites == 1

(***************************************************************************)
(* Spec: the application.  A UI event sets a component property and        *)
(* triggers the callbacks that have it as Input; each callback then runs   *)
(* with the properties as they are.                                        *)
(***************************************************************************)
Init ==
    /\ IdleSmooth /\ IdleDate
    /\ pc = "boot"
    /\ listing \in Listings
    /\ disk \in [Paths -> StartFiles]
    /\ writes = 0
    /\ franchises = <<>>
    /\ options = <<>>
    /\ value = <<>>
    /\ figure = None
    /\ graphError = None
    /\ hoverData = None
    /\ hoverRow = None
    /\ panel = None
    /\ pending = {}
    /\ lastLoad = [p \in Paths |-> None]

\* Lines 26-48 run once, when the module is imported.
Startup ==
    /\ pc = "boot"
    /\ IF listing.k = "missing"
       THEN /\ pc' = "crashed"
            /\ UNCHANGED <<smoothVars, dateVars, franchises, options, value>>
       ELSE LET catalog == DictOf(franchise_csvs(listing.names))
            IN  /\ franchises' = catalog
                /\ IF catalog = <<>>
                   THEN /\ pc' = "crashed"
                        /\ UNCHANGED <<smoothVars, dateVars, options, value>>
                   ELSE /\ pc' = "serving"
                        /\ options' = DropdownOptions(catalog)
                        /\ value' = catalog[1][2]
    /\ UNCHANGED <<smoothVars, dateVars, listing, disk, writes, figure, graphError, hoverData, hoverRow,
                   panel, pending, lastLoad>>

\* A browser opens (or reloads) the page: the layout's properties are the
\* initial ones and both callbacks are triggered.
PageLoad ==
    /\ pc \in {"serving", "page"}
    /\ pending = {}
    /\ pc' = "page"
    /\ value' = franchises[1][2]
    /\ figure' = None
    /\ graphError' = None
    /\ hoverData' = None
    /\ hoverRow' = None
    /\ panel' = None
    /\ pending' = {"update_graph", "display_hover_data"}
    /\ UNCHANGED <<smoothVars, dateVars, listing, disk, writes, franchises, options, lastLoad>>

ChangeDropdown(p) ==
    /\ pc = "page"
    /\ pending = {}
    /\ \E i \in 1..Len(options) : options[i].value = p
    /\ p # value
    /\ value' = p
    /\ pending' = {"update_graph", "display_hover_data"}
    /\ UNCHANGED <<smoothVars, dateVars, pc, listing, disk, writes, franchises, options, figure, graphError,
                   hoverData, hoverRow, panel, lastLoad>>

\* The pointer comes over the markers of row i of the figure on display; the
\* event lists the hovered marker of each marker trace that has one there.
HoverPoints(i) ==
    SelectSeq(<< [curveNumber |-> 1, pointIndex |-> i - 1,
                  customdata |-> figure.data[2].customdata[i]],
                 [curveNumber |-> 3, pointIndex |-> i - 1,
                  customdata |-> figure.data[4].customdata[i]] >>,
              LAMBDA pt : notna(figure.data[pt.curveNumber + 1].y[i]))

HoverPoint(i) ==
    /\ pc = "page"
    /\ pending = {}
    /\ figure.k = "figure"
    /\ i \in 1..Len(figure.frame)
    /\ figure.data[2].x[i] # NaT
    /\ \E points \in {HoverPoints(i)} :
          /\ points # <<>>
          /\ [k |-> "hover", points |-> points] # hoverData
          /\ hoverData' = [k |-> "hover", points |-> points]
    /\ hoverRow' = figure.frame[i]
    /\ pending' = {"display_hover_data"}
    /\ UNCHANGED <<smoothVars, dateVars, pc, listing, disk, writes, franchises, options, value, figure,
                   graphError, panel, lastLoad>>

\* An exception leaving the callback leaves the figure as it was.
RunUpdateGraph ==
    /\ "update_graph" \in pending
    /\ \E fig \in {update_graph(value)} :
           /\ figure' = IF fig.k = "figure" THEN fig ELSE figure
           /\ graphError' = IF fig.k = "raised" THEN fig ELSE [k |-> "ok"]
           /\ lastLoad' = [lastLoad EXCEPT ![value] =
                             [k |-> "load", read |-> read_csv(value),
                              nth |-> IF lastLoad[value].k = "load" THEN 2 ELSE 1,
                              rows |-> IF fig.k = "figure" THEN fig.frame ELSE <<>>,
                              x_numeric |-> IF fig.k = "figure" THEN fig.data[2].x ELSE <<>>,
                              outcome |-> IF fig.k = "figure" THEN [k |-> "ok"] ELSE fig]]
    /\ pending' = pending \ {"update_graph"}
    /\ UNCHANGED <<smoothVars, dateVars, pc, listing, disk, writes, franchises, options, value, hoverData,
                   hoverRow, panel>>

RunDisplayHoverData ==
    /\ "display_hover_data" \in pending
    /\ panel' = display_hover_data(hoverData, value)
    /\ pending' = pending \ {"display_hover_data"}
    /\ UNCHANGED <<smoothVars, dateVars, pc, listing, disk, writes, franchises, options, value, figure,
                   graphError, hoverData, hoverRow, lastLoad>>

\* Somebody rewrites or deletes a file of the folder while the server runs.
WriteFile(path, contents) ==
    /\ pc = "page"
    /\ pending = {}
    /\ writes < MaxWrites
    /\ contents # disk[path]
    /\ disk' = [disk EXCEPT ![path] = contents]
    /\ writes' = writes + 1
    /\ UNCHANGED <<smoothVars, dateVars, pc, listing, franchises, options, value, figure, graphError,
                   hoverData, hoverRow, panel, pending, lastLoad>>

Next ==
    \/ Startup
    \/ PageLoad
    \/ \E p \in Paths : ChangeDropdown(p)
    \/ \E i \in 1..MaxRows : HoverPoint(i)
    \/ RunUpdateGraph
    \/ RunDisplayHoverData
    \/ \E p \in Paths, c \in FileChoices \cup {Missing} : WriteFile(p, c)

Spec == Init /\ [][Next]_vars

(***************************************************************************)
(* The date cells the model feeds to the loader: a month token, blanks, a  *)
(* day token, a comma, blanks and a year token.                            *)
(***************************************************************************)
MonthTokens == { <<"J","a","n">>, <<"j","a","n">>, <<"F","e","b">>, <<"F","E","B">>,
                 <<"S","e","p">>, <<"A","p","r">>, <<"J","a","n","u">>, <<"0","1">> }
DayTokens   == { <<"5">>, <<"0","5">>, <<"1","5">>, <<"2","1">>, <<"2","9">>, <<"3","0">>,
                 <<"3","1">>, <<"3","2">>, <<"0","0">>, <<"0">>, <<"1","2","0">> }
YearTokens  == { <<"2","0","2","0">>, <<"2","0","2","1">>, <<"1","6","7","7">>,
                 <<"2","2","6","2">>, <<"1","5","9","9">>, <<"0","0","0","0">>,
                 <<"2","1">>, <<"2","0","2","0","0">> }
BlankTokens == { <<>>, <<" ">>, <<" ", " ">> }
CommaTokens == { <<",">>, <<>> }

DateStrings ==
    { m \o b1 \o d \o c \o b2 \o y :
        m \in MonthTokens, b1 \in BlankTokens, d \in DayTokens,
        c \in CommaTokens, b2 \in BlankTokens, y \in YearTokens }

(***************************************************************************)
(* SpecDate: one release_date cell through lines 68 and 75 of update_graph *)
(***************************************************************************)
InitDate ==
    /\ IdleApp /\ IdleSmooth
    /\ dphase = "cell"
    /\ dstr \in DateStrings
    /\ dparsed = NaT
    /\ dformatted = NaN

ParseCell ==
    /\ dphase = "cell"
    /\ dparsed' = to_datetime(Text(dstr))
    /\ dphase' = "parsed"
    /\ UNCHANGED <<dstr, dformatted, appVars, smoothVars>>

FormatCell ==
    /\ dphase = "parsed"
    /\ dformatted' = strftime(dparsed)
    /\ dphase' = "formatted"
    /\ UNCHANGED <<dstr, dparsed, appVars, smoothVars>>

NextDate == ParseCell \/ FormatCell

SpecDate == InitDate /\ [][NextDate]_vars

(***************************************************************************)
(* Properties                                                              *)
(***************************************************************************)
Quiescent == pc = "page" /\ pending = {}

\* The positions of the input series whose y is not null, and the j-th of them.
ValidIdx == {i \in 1..Len(sy) : sy[i] # NaN}
KthValid(j) == CHOOSE i \in ValidIdx : Cardinality({m \in ValidIdx : m < i}) = j - 1

\* C1: with fewer than 3 pairs whose y is not null, smooth_line returns exactly
\* those pairs, in their original order and with their original values: as many
\* as there are valid pairs, none with a null y.
C1_FallbackReturnsValidPairs ==
    (sout # None /\ Cardinality(ValidIdx) < 3) =>
        /\ sout.k = "ok"
        /\ ~sout.smoothed
        /\ Len(sout.x) = Cardinality(ValidIdx)
        /\ Len(sout.y) = Cardinality(ValidIdx)
        /\ \A j \in 1..Cardinality(ValidIdx) :
              /\ sout.x[j] = sx[KthValid(j)]
              /\ sout.y[j] = sy[KthValid(j)]
              /\ sout.y[j] # NaN

\* C1 witness: a series with one valid score and a null one came back as one point.
C1_Witness ==
    /\ sout # None
    /\ Len(sy) >= 2
    /\ Cardinality(ValidIdx) = 1
    /\ sout.k = "ok"
    /\ Len(sout.x) = 1 /\ Len(sout.y) = 1

\* C2: with at least 3 valid pairs (exactly 3 included) smooth_line returns a
\* curve of exactly `points` samples whose first x is min(x) and whose last x is
\* max(x), and does not end in an error.  Stated for the series the input
\* contract admits: the valid pairs' x strictly increasing.
C2_CurveSpansRange ==
    (/\ sout # None
     /\ Cardinality(ValidIdx) >= 3
     /\ \A i, j \in ValidIdx : i < j => sx[i] < sx[j]) =>
        /\ sout.k = "ok"
        /\ sout.smoothed
        /\ Len(sout.x) = spoints
        /\ Len(sout.y) = spoints
        /\ sout.x[1].n = sx[KthValid(1)] * sout.x[1].d
        /\ sout.x[spoints].n = sx[KthValid(Cardinality(ValidIdx))] * sout.x[spoints].d

\* C3: once the callbacks have run, the panel of a hovered point shows the fields
\* of the table row the point was drawn from, each in its own place.
C3_PanelShowsHoveredRow ==
    (Quiescent /\ hoverData # None) =>
        /\ panel # None
        /\ panel.title = hoverRow["title"]
        /\ panel.date = hoverRow["formatted_release_date"]
        /\ panel.budget = hoverRow["production_budget"]
        /\ panel.box_office = hoverRow["box_office"]
        /\ panel.profit = hoverRow["profit"]
        /\ panel.roi = hoverRow["roi_percentage"]
        /\ panel.performance = hoverRow["performance"]
        /\ panel.poster = hoverRow["poster_url"]
        /\ panel.runtime = hoverRow["runtime"]
        /\ panel.tagline = hoverRow["tagline"]
        /\ panel.trailer = hoverRow["trailer"]
        /\ panel.sentiment = hoverRow["sentiment_score"]
        /\ panel.comment = hoverRow["comment"]

\* C3 witness: the point of row index 2 was hovered, on the sentiment markers
\* alone or on both marker traces, and the panel shows that row's title.
C3_Witness ==
    /\ Quiescent
    /\ hoverData # None
    /\ hoverData.points[1].pointIndex = 2
    /\ panel # None
    /\ panel.state = "point hovered"
    /\ figure.k = "figure"
    /\ Len(figure.frame) >= 3
    /\ panel.title = figure.frame[3]["title"]
    /\ panel.sentiment = figure.data[4].y[3]

\* C4: once the callbacks have run, the panel is in "no selection" (date "...",
\* both metric values "-.--") exactly when the latest hover event is null, and
\* otherwise in "point hovered" showing that event's payload.
C4_PanelFollowsLatestHover ==
    Quiescent =>
        /\ panel # None
        /\ panel.state \in {"no selection", "point hovered"}
        /\ hoverData = None =>
              /\ panel.state = "no selection"
              /\ panel.date = Text(<<"...">>)
              /\ panel.performance = Text(<<"-.--">>)
              /\ panel.sentiment = Text(<<"-.--">>)
        /\ hoverData # None =>
              /\ panel.state = "point hovered"
              /\ panel.title = hoverData.points[1].customdata[1]
              /\ panel.date = hoverData.points[1].customdata[2]
              /\ panel.performance = hoverData.points[1].customdata[7]
              /\ panel.sentiment = hoverData.points[1].customdata[13]

\* C4 witness: after more than one selection of a franchise the latest hover
\* event is null and the placeholder is on display.
C4_Witness ==
    /\ Quiescent
    /\ hoverData = None
    /\ panel # None
    /\ panel.state = "no selection"
    /\ \E p \in Paths : lastLoad[p].k = "load" /\ lastLoad[p].nth = 2

\* C5: with the folder missing or holding no <franchise>_movies.csv, startup
\* completes and the catalog and the dropdown's options are empty.
C5_EmptyCatalogStarts ==
    (/\ pc \notin {"boot", "idle"}
     /\ \/ listing.k = "missing"
        \/ \A i \in 1..Len(listing.names) : ~EndsWith(listing.names[i], MoviesSuffix)) =>
        /\ pc # "crashed"
        /\ franchises = <<>>
        /\ options = <<>>

\* What the latest update_graph of the selection ran into.
LoadFailed(p) ==
    /\ lastLoad[p].k = "load"
    /\ \/ lastLoad[p].read.k = "raised"
       \/ ~(Columns \subseteq lastLoad[p].read.columns)

\* C6: a selected file that is missing or lacks a required column gives an
\* empty/error figure and an error-state panel, not a failure that leaves
\* update_graph uncaught.
C6_LoadFailureIsSurfaced ==
    (Quiescent /\ LoadFailed(value)) =>
        /\ graphError.k # "raised"
        /\ figure.k \notin {"None", "figure"}
        /\ panel # None
        /\ panel.state \notin {"no selection", "point hovered"}

\* C7: after a load no row with an unparseable release_date is left: not among
\* the marker traces' points, nor in the x sequence handed to smooth_line, which
\* is ascending and holds valid timestamps only.
C7_BadDatesDropped ==
    \A p \in DOMAIN lastLoad :
        (lastLoad[p].k = "load" /\ lastLoad[p].outcome.k = "ok") =>
            /\ \A i \in 1..Len(lastLoad[p].rows) : lastLoad[p].rows[i]["release_date"] # NaT
            /\ \A i \in 1..Len(lastLoad[p].x_numeric) : lastLoad[p].x_numeric[i] # NaT
            /\ \A i \in 1..(Len(lastLoad[p].x_numeric) - 1) :
                  lastLoad[p].x_numeric[i] <= lastLoad[p].x_numeric[i + 1]

\* The form strftime('%b %d, %Y') writes: capitalised month abbreviation, one
\* blank, two-digit day, comma, one blank, four-digit year.
Canonical(s) ==
    /\ Len(s) = 12
    /\ \E m \in 1..12 : SubSeq(s, 1, 3) = MonthAbbr[m]
    /\ s[4] = " " /\ IsDigit(s[5]) /\ IsDigit(s[6]) /\ s[7] = "," /\ s[8] = " "
    /\ \A i \in 9..12 : IsDigit(s[i])

\* C8 as stated: every release_date the parse accepts comes back from the
\* formatter character for character.
C8_RoundTripAllAccepted ==
    (dphase = "formatted" /\ dparsed # NaT) => dformatted = Text(dstr)

\* C8 as amended: every release_date the parse accepts and that is written in
\* the canonical form comes back from the formatter character for character.
C8_RoundTripCanonical ==
    (dphase = "formatted" /\ dparsed # NaT /\ Canonical(dstr)) => dformatted = Text(dstr)

\* C8 witness: a canonical date with a single-digit day of month, zero-padded,
\* was parsed and formatted back.
C8_Witness ==
    /\ dphase = "formatted"
    /\ dparsed # NaT
    /\ Canonical(dstr)
    /\ dstr[5] = "0"
    /\ dformatted = Text(dstr)

\* C9: every update_graph reads the selected file as it is on disk, and when it
\* reads the same contents as the previous update_graph of that path did, it
\* builds the same sorted rows.
C9_ReloadIsPure ==
    [][("update_graph" \in pending /\ "update_graph" \notin pending') =>
          /\ lastLoad'[value].k = "load"
          /\ lastLoad'[value].read =
                (IF disk[value] = Missing THEN Raised("FileNotFoundError") ELSE disk[value])
          /\ (lastLoad[value].k = "load" /\ lastLoad[value].read = lastLoad'[value].read) =>
                /\ lastLoad'[value].rows = lastLoad[value].rows
                /\ lastLoad'[value].outcome = lastLoad[value].outcome]_vars

\* C9 witness: a franchise whose file holds two rows of the same release date was
\* loaded a second time, after the other franchise had been selected in between;
\* the two rows stand in file order behind the earlier one.
C9_Witness ==
    /\ Quiescent
    /\ lastLoad[value].k = "load"
    /\ lastLoad[value].nth = 2
    /\ \A p \in Paths : lastLoad[p].k = "load"
    /\ lastLoad[value].read = FileTies
    /\ Len(lastLoad[value].rows) = 3
    /\ lastLoad[value].rows[2]["title"] = Text(<<"title", "m6">>)
    /\ lastLoad[value].rows[3]["title"] = Text(<<"title", "m7">>)
    /\ lastLoad[value].rows[2]["release_date"] = lastLoad[value].rows[3]["release_date"]

\* C10: once the callbacks have run, a panel in "point hovered" shows a record
\* of the franchise that is selected, as update_graph has just loaded it (stated
\* for selections whose load succeeded).
C10_PanelOfSelectedFranchise ==
    (/\ Quiescent
     /\ graphError.k = "ok"
     /\ panel # None
     /\ panel.state = "point hovered") =>
        /\ lastLoad[value].k = "load"
        /\ \E i \in 1..Len(lastLoad[value].rows) :
              lastLoad[value].rows[i]["title"] = panel.title

====
